---- MODULE Spec2Model ----
(***************************************************************************)
(* Model of sway/scripts/fadder.py: the Fader class (role tracker, focus   *)
(* transition handlers) and its fade engine (add_fade, fader_loop).        *)
(*                                                                         *)
(* Opacities are in thousandths (1.0 = 1000, 0.88 = 880) and times in      *)
(* milliseconds, so that every per-frame change the program computes is an *)
(* integer: 0.006, 0.008 and 0.010 become 6, 8 and 10.                     *)
(*                                                                         *)
(* Two threads run: the i3ipc event thread, which runs one handler at a    *)
(* time, and the fader thread started by start_fader.  A handler is        *)
(* dispatched in one step that reads the role state, updates it and lays   *)
(* down the handler's calls to change_opacity / add_fade, in source order, *)
(* in todo; the event thread then performs these calls one by one,         *)
(* interleaved with the fader thread.  Only the event thread reads or      *)
(* writes the role state, so the interleaving the fader thread can observe *)
(* is exactly that of the calls.                                           *)
(***************************************************************************)
EXTENDS Integers, Sequences, FiniteSets, TLC

\* ---------------------------------------------------------------- bounds
MaxWin == 3
MaxEvents == 3
MaxRaced == 2
MaxRequests == 2
MaxThreads == 2

\* ------------------------------------------------------ program constants
FRAME_T == 10
CON_AC == 1000
CON_INAC == 880
FLOAT_AC == 1000
FLOAT_INAC == 880
BOT_INAC == 880
FADE_TIME == 200
ALT_FADE_TIME == 120
CON_OUT == FADE_TIME
CON_IN == 150
FLOAT_OUT == ALT_FADE_TIME
FLOAT_IN == ALT_FADE_TIME
BOT_OUT == ALT_FADE_TIME
BOT_IN == ALT_FADE_TIME
BOT_SWITCH_IN == FADE_TIME
BOT_SWITCH_OUT == FADE_TIME
FLOAT_BOT_OUT == FADE_TIME
FLOAT_BOT_IN == FADE_TIME

\* ------------------------------------------------------------- windows
Ids == 1..MaxWin
Threads == 1..MaxThreads
Kinds == {"con", "floating_con"}

\* a container as i3ipc hands it over: identifier and type at that moment
Win(i, ty) == [id |-> i, type |-> ty]
\* Python's None for a window reference
NoWin == [id |-> 0, type |-> "none"]

VARIABLES
    tree,              \* window manager: type of every window, "absent" if not created
    active_win,        \* Fader.active_win
    old_win,           \* Fader.old_win
    bottom_win,        \* Fader.bottom_win
    floating_windows,  \* Fader.floating_windows
    fade_queue,        \* Fader.fade_queue: set of entries, keyed by .id
    fader_running,     \* Fader.fader_running
    fade_lock,         \* Fader.fade_lock: 0 when free, else the fader thread holding it
    todo,              \* calls the running handler has still to make
    epc,               \* event thread: "idle", or "start" inside add_fade after the insert
    tpc,               \* fader threads: "dead", "check", "pop", "exit"
    finished,          \* fader_loop's local list finished, per thread, as the last pass left it
    out,               \* opacity commands sent by the last step
    failed,            \* windows whose command of the last step raised an exception
    last_cmd,          \* last opacity sent for every window (0: none yet)
    last_req,          \* last opacity a handler asked for, per window (0: none yet)
    hist,              \* events delivered so far
    crashed            \* an exception left a handler and ended the process

vars == <<tree, active_win, old_win, bottom_win, floating_windows, fade_queue,
          fader_running, fade_lock, todo, epc, tpc, finished, out, failed,
          last_cmd, last_req, hist, crashed>>

roles == <<active_win, old_win, bottom_win, floating_windows>>
engine == <<fade_queue, fader_running, fade_lock, tpc, finished>>

\* ------------------------------------------------------------- commands
\* a call the handler makes: change_opacity(win, target) or add_fade(win, start, target, duration)
SetOp(w, v) == [op |-> "set", win |-> w, start |-> v, target |-> v, duration |-> 0]
Fade(w, s, t, d) == [op |-> "fade", win |-> w, start |-> s, target |-> t, duration |-> d]

\* change_opacity: the command "opacity v" sent to window w
Cmd(w, v, who) == [id |-> w.id, value |-> v, by |-> who]

\* the last value per window after the commands cs have been sent
Sent(cs) ==
    [w \in Ids |-> IF \E c \in cs : c.id = w
                   THEN (CHOOSE c \in cs : c.id = w).value
                   ELSE last_cmd[w]]

\* ----------------------------------------------------------- start-up
\* init_existing_windows: the base opacity of a window of the initial tree
BaseOpacity(ty, focused) ==
    IF ty = "floating_con"
    THEN IF focused THEN FLOAT_AC ELSE FLOAT_INAC
    ELSE IF focused THEN CON_AC ELSE CON_INAC

\* the initial trees: windows 1..k exist, each tiled or floating
Trees ==
    {tr \in [Ids -> Kinds \cup {"absent"}] :
        \A i, j \in Ids : (i < j /\ tr[i] = "absent") => tr[j] = "absent"}

InitEngineVars ==
    /\ fade_queue = {}
    /\ fader_running = FALSE
    /\ fade_lock = 0
    /\ todo = <<>>
    /\ epc = "idle"
    /\ tpc = [t \in Threads |-> "dead"]
    /\ finished = [t \in Threads |-> {}]
    /\ out = {}
    /\ failed = {}
    /\ hist = <<>>
    /\ crashed = FALSE

\* Fader.__init__: the state once init_existing_windows has run
Init ==
    /\ tree \in Trees
    /\ \E f \in {0} \cup {i \in Ids : tree[i] # "absent"} :
          /\ active_win = IF f = 0 THEN NoWin ELSE Win(f, tree[f])
          /\ last_cmd = [w \in Ids |-> IF tree[w] = "absent" THEN 0
                                       ELSE BaseOpacity(tree[w], w = f)]
    /\ last_req = last_cmd
    /\ old_win = NoWin
    /\ bottom_win = NoWin
    /\ floating_windows = {i \in Ids : tree[i] = "floating_con"}
    /\ InitEngineVars

\* ------------------------------------------------------- on_window_focus
\* both tiled windows fade over CON_OUT
FocusOpsOneTime(old, new, bot) ==
    <<Fade(new, CON_INAC, CON_AC, CON_OUT), Fade(old, CON_AC, CON_INAC, CON_OUT)>>

\* the add_fade calls on_window_focus makes for old = active_win and new = e.container
FocusOps(old, new, bot) ==
    IF old.type = "con" /\ new.type = "con"
    THEN <<Fade(new, CON_INAC, CON_AC, CON_IN), Fade(old, CON_AC, CON_INAC, CON_OUT)>>
    ELSE IF old.type = "con" /\ new.type # "con"
    THEN <<Fade(new, FLOAT_INAC, FLOAT_AC, FLOAT_IN), Fade(old, CON_AC, BOT_INAC, BOT_OUT)>>
    ELSE IF old.type # "con" /\ new.type = "con"
    THEN <<Fade(old, FLOAT_AC, FLOAT_INAC, FLOAT_BOT_OUT)>> \o
         (IF bot = NoWin
          THEN <<Fade(new, CON_INAC, CON_AC, CON_IN)>>
          ELSE IF new.id # bot.id
          THEN <<Fade(bot, BOT_INAC, CON_INAC, BOT_SWITCH_OUT),
                 Fade(new, CON_INAC, CON_AC, BOT_SWITCH_IN)>>
          ELSE <<Fade(bot, BOT_INAC, CON_AC, BOT_IN)>>)
    ELSE <<Fade(old, FLOAT_AC, FLOAT_INAC, FLOAT_OUT), Fade(new, FLOAT_INAC, FLOAT_AC, FLOAT_IN)>>

\* a focus change from a floating window never moves the bottom role
FocusBottomNoSwitch(old, new, bot) == IF old.type = "con" /\ new.type # "con" THEN old ELSE bot

\* bottom_win as on_window_focus leaves it
FocusBottom(old, new, bot) ==
    IF old.type = "con" /\ new.type # "con" THEN old
    ELSE IF old.type # "con" /\ new.type = "con" /\ bot # NoWin /\ new.id # bot.id THEN new
    ELSE bot

\* the early return of on_window_focus
FocusIgnored(active, new) == active = NoWin \/ active.id = new.id

\* active_win as on_window_focus leaves it
FocusActive(active, new) == IF FocusIgnored(active, new) THEN active ELSE new

Ready == ~crashed /\ todo = <<>> /\ epc = "idle"

Event(kind, w) == [ev |-> kind, id |-> w.id, type |-> w.type]

on_window_focus(i) ==
    LET new == Win(i, tree[i]) IN
    /\ Ready /\ Len(hist) < MaxEvents
    /\ tree[i] # "absent"
    /\ hist' = Append(hist, Event("focus", new))
    /\ active_win' = FocusActive(active_win, new)
    /\ IF FocusIgnored(active_win, new)
       THEN UNCHANGED <<bottom_win, todo>>
       ELSE /\ todo' = FocusOps(active_win, new, bottom_win)
            /\ bottom_win' = FocusBottom(active_win, new, bottom_win)
    /\ out' = {}
    /\ UNCHANGED <<tree, old_win, floating_windows, engine, epc, last_cmd, last_req, crashed>>
    /\ failed' = {}

\* --------------------------------------------------------- on_window_new
\* the change_opacity calls on_window_new makes
NewOps(active, bot, new) ==
    (IF active # NoWin
     THEN <<SetOp(active, IF active.type = "con" THEN CON_INAC ELSE FLOAT_INAC)>>
     ELSE <<>>) \o
    (IF bot # NoWin
     THEN <<SetOp(bot, CON_INAC)>>
     ELSE IF active # NoWin /\ active.type = "con"
     THEN <<SetOp(active, CON_INAC)>>
     ELSE <<>>) \o
    <<SetOp(new, CON_AC)>>

\* the active tiled window is not adopted as bottom
NewBottomKept(active, bot) == bot

\* bottom_win as on_window_new leaves it
NewBottom(active, bot) ==
    IF bot # NoWin THEN bot
    ELSE IF active # NoWin /\ active.type = "con" THEN active
    ELSE bot

\* the window manager creates the next window, tiled or floating, and reports it
on_window_new(i, ty) ==
    LET new == Win(i, ty) IN
    /\ Ready /\ Len(hist) < MaxEvents
    /\ tree[i] = "absent"
    /\ \A j \in Ids : j < i => tree[j] # "absent"
    /\ tree' = [tree EXCEPT ![i] = ty]
    /\ hist' = Append(hist, Event("new", new))
    /\ todo' = NewOps(active_win, bottom_win, new)
    /\ bottom_win' = NewBottom(active_win, bottom_win)
    /\ old_win' = active_win
    /\ active_win' = new
    /\ out' = {}
    /\ UNCHANGED <<floating_windows, engine, epc, last_cmd, last_req, crashed>>
    /\ failed' = {}

\* ---------------------------------------------------- on_window_floating
\* floating_windows after the toggle of cid
FloatingSet(fl, cid) == IF cid \notin fl THEN fl \cup {cid} ELSE fl \ {cid}

\* the toggle handler never notices a missing active window
FloatingNeverRaises(active) == FALSE

\* self.active_win.id is read while active_win is None: AttributeError
FloatingRaises(active) == active = NoWin

\* bottom_win as on_window_floating leaves it
FloatingBottom(fl, active, old, bot, new) ==
    IF new.id \notin fl /\ active.id = new.id /\ old # NoWin /\ bot # NoWin /\ old.type = "con"
    THEN old
    ELSE bot

\* the bottom window is not dimmed
FloatingOpsNoDim(fl, active, old, bot, new) ==
    IF new.id \notin fl
    THEN <<SetOp(new, IF active.id # new.id THEN FLOAT_INAC ELSE FLOAT_AC)>>
    ELSE <<SetOp(new, IF active.id # new.id THEN CON_INAC ELSE CON_AC)>>

\* the change_opacity calls on_window_floating makes
FloatingOps(fl, active, old, bot, new) ==
    IF new.id \notin fl
    THEN IF active.id # new.id
         THEN <<SetOp(new, FLOAT_INAC)>>
         ELSE (IF old # NoWin /\ bot # NoWin
               THEN <<SetOp(FloatingBottom(fl, active, old, bot, new), BOT_INAC)>>
               ELSE <<>>) \o
              <<SetOp(new, FLOAT_AC)>>
    ELSE IF active.id # new.id
         THEN <<SetOp(new, CON_INAC)>>
         ELSE (IF old # NoWin /\ old.type = "con"
               THEN <<SetOp(old, CON_INAC)>>
               ELSE <<>>) \o
              <<SetOp(active, CON_AC)>>

\* the window manager toggles window i between tiled and floating and reports it
on_window_floating(i) ==
    LET ty  == IF tree[i] = "con" THEN "floating_con" ELSE "con"
        new == Win(i, ty)
    IN
    /\ Ready /\ Len(hist) < MaxEvents
    /\ tree[i] # "absent"
    /\ tree' = [tree EXCEPT ![i] = ty]
    /\ hist' = Append(hist, Event("floating", new))
    /\ floating_windows' = FloatingSet(floating_windows, i)
    /\ IF FloatingRaises(active_win)
       THEN /\ crashed' = TRUE
            /\ UNCHANGED <<active_win, bottom_win, todo>>
       ELSE /\ todo' = FloatingOps(floating_windows, active_win, old_win, bottom_win, new)
            /\ bottom_win' = FloatingBottom(floating_windows, active_win, old_win, bottom_win, new)
            /\ active_win' = new
            /\ UNCHANGED crashed
    /\ out' = {}
    /\ UNCHANGED <<old_win, engine, epc, last_cmd, last_req>>
    /\ failed' = {}

\* ------------------------------------------------------- change_opacity
\* the event thread makes the handler's next call, a change_opacity
change_opacity ==
    /\ ~crashed /\ epc = "idle" /\ todo # <<>>
    /\ Head(todo).op = "set"
    /\ out' = {Cmd(Head(todo).win, Head(todo).target, "event")}
    /\ last_cmd' = Sent(out')
    /\ last_req' = [last_req EXCEPT ![Head(todo).win.id] = Head(todo).target]
    /\ todo' = Tail(todo)
    /\ UNCHANGED <<tree, roles, engine, epc, hist, crashed>>
    /\ failed' = {}

\* --------------------------------------------------------------- add_fade
\* the test start == target is forgotten
ImmediateNoEq(w, s, t, d) == w = NoWin \/ d = 0

\* add_fade returns without a fade: no window, no duration, or nothing to change
Immediate(w, s, t, d) == w = NoWin \/ d = 0 \/ s = t

\* the per-frame change add_fade computes
Change(s, t, d) == (FRAME_T * (t - s)) \div d

\* the entry add_fade builds
Entry(w, s, t, d) ==
    [id |-> w.id, opacity |-> s, change |-> Change(s, t, d), target |-> t, win |-> w]

\* the entry is added and an older entry of the window is kept
QueuePutKeep(q, e) == q \cup {e}

\* fade_queue[key] = e
QueuePut(q, e) == {f \in q : f.id # e.id} \cup {e}

\* fade_lock excludes nobody
LockAlwaysFree(l) == TRUE

\* the with-statement of add_fade may enter
LockFree(l) == l = 0

\* add_fade, lines 98-102: the immediate cases
add_fade_immediate ==
    LET c == Head(todo) IN
    /\ ~crashed /\ epc = "idle" /\ todo # <<>>
    /\ c.op = "fade"
    /\ Immediate(c.win, c.start, c.target, c.duration)
    /\ IF c.win = NoWin
       THEN /\ out' = {}
            /\ UNCHANGED <<last_cmd, last_req>>
       ELSE /\ out' = {Cmd(c.win, c.target, "event")}
            /\ last_cmd' = Sent(out')
            /\ last_req' = [last_req EXCEPT ![c.win.id] = c.target]
    /\ todo' = Tail(todo)
    /\ UNCHANGED <<tree, roles, engine, epc, hist, crashed>>
    /\ failed' = {}

\* add_fade, lines 104-111: the entry is put in the queue under the lock
add_fade_insert ==
    LET c == Head(todo) IN
    /\ ~crashed /\ epc = "idle" /\ todo # <<>>
    /\ c.op = "fade"
    /\ ~Immediate(c.win, c.start, c.target, c.duration)
    /\ LockFree(fade_lock)
    /\ fade_queue' = QueuePut(fade_queue, Entry(c.win, c.start, c.target, c.duration))
    /\ last_req' = [last_req EXCEPT ![c.win.id] = c.target]
    /\ epc' = "start"
    /\ out' = {}
    /\ UNCHANGED <<tree, roles, fader_running, fade_lock, tpc, finished, todo,
                   last_cmd, hist, crashed>>
    /\ failed' = {}

\* add_fade starts a thread whatever fader_running says
AlwaysStart(running) == TRUE

\* the test of add_fade, line 113
MustStart(running) == ~running

\* the thread start_fader starts
NewThread == CHOOSE t \in Threads : tpc[t] = "dead" /\ \A u \in Threads : u < t => tpc[u] # "dead"

\* add_fade, lines 113-114, and start_fader
start_fader ==
    /\ ~crashed /\ epc = "start"
    /\ IF MustStart(fader_running)
       THEN /\ \E t \in Threads : tpc[t] = "dead"
            /\ fader_running' = TRUE
            /\ tpc' = [tpc EXCEPT ![NewThread] = "check"]
       ELSE UNCHANGED <<fader_running, tpc>>
    /\ epc' = "idle"
    /\ todo' = Tail(todo)
    /\ out' = {}
    /\ UNCHANGED <<tree, roles, fade_queue, fade_lock, finished, last_cmd, last_req,
                   hist, crashed>>
    /\ failed' = {}

\* ------------------------------------------------------------ fader_loop
\* f["opacity"] += f["change"]
Advance(f) == [f EXCEPT !.opacity = f.opacity + f.change]

\* no fade is ever taken as complete
DoneNever(f) == FALSE

\* the completion test of fader_loop
Done(f) ==
    \/ (f.change > 0 /\ f.opacity >= f.target)
    \/ (f.change < 0 /\ f.opacity <= f.target)

\* the finished entry is not snapped to its target
IssuedRaw(f) == f.opacity

\* the opacity fader_loop sends for an advanced entry
Issued(f) == IF Done(f) THEN f.target ELSE f.opacity

\* the loop is never left
NeverEmpty(q) == FALSE

\* fader_loop sees the queue empty
QueueEmpty(q) == q = {}

\* fader_loop, lines 125-127: the queue is empty, the loop is left
fader_break(t) ==
    /\ ~crashed /\ tpc[t] = "check"
    /\ LockFree(fade_lock)
    /\ QueueEmpty(fade_queue)
    /\ tpc' = [tpc EXCEPT ![t] = "exit"]
    /\ out' = {}
    /\ UNCHANGED <<tree, roles, fade_queue, fader_running, fade_lock, finished, todo, epc,
                   last_cmd, last_req, hist, crashed>>
    /\ failed' = {}

\* the try of change_opacity lets no exception escape
NotCaught == FALSE

\* change_opacity, lines 43-46: except Exception catches what win.command raises
Caught == TRUE

\* fader_loop, lines 125-139: one pass over the queue, under the lock, the commands
\* to the windows of F raising an exception.  Were an exception not caught, it
\* would leave fader_loop at the first failing entry g, after the entries of P:
\* the with statement releases the lock and the thread ends.
fader_tick(t, F) ==
    /\ ~crashed /\ tpc[t] = "check"
    /\ LockFree(fade_lock)
    /\ ~QueueEmpty(fade_queue)
    /\ F \subseteq {f.id : f \in fade_queue}
    /\ IF F = {} \/ Caught
       THEN /\ fade_lock' = t
            /\ fade_queue' = {Advance(f) : f \in fade_queue}
            /\ finished' = [finished EXCEPT ![t] = {f.id : f \in {g \in fade_queue' : Done(g)}}]
            /\ out' = {Cmd(f.win, Issued(f), "tick") : f \in fade_queue'}
            /\ failed' = F
            /\ tpc' = [tpc EXCEPT ![t] = "pop"]
       ELSE \E g \in {f \in fade_queue : f.id \in F} :
            \E P \in SUBSET {f \in fade_queue : f.id \notin F} :
               /\ fade_lock' = fade_lock
               /\ fade_queue' = (fade_queue \ (P \cup {g})) \cup {Advance(f) : f \in P \cup {g}}
               /\ finished' = [finished EXCEPT ![t] = {f.id : f \in {h \in P : Done(Advance(h))}}]
               /\ out' = {Cmd(f.win, Issued(Advance(f)), "tick") : f \in P \cup {g}}
               /\ failed' = {g.id}
               /\ tpc' = [tpc EXCEPT ![t] = "dead"]
    /\ last_cmd' = Sent(out')
    /\ UNCHANGED <<tree, roles, fader_running, todo, epc, last_req, hist, crashed>>

\* fader_loop, lines 125-139: one pass over the queue, every command succeeding
fader_pass(t) == fader_tick(t, {})

\* fade_queue.pop(fid, None) for every fid of finished
QueuePop(q, fin) == {f \in q : f.id \notin fin}

\* fader_loop, lines 141-144: finished entries are removed, the lock is released, sleep
fader_pop(t) ==
    /\ ~crashed /\ tpc[t] = "pop"
    /\ fade_queue' = QueuePop(fade_queue, finished[t])
    /\ fade_lock' = 0
    /\ tpc' = [tpc EXCEPT ![t] = "check"]
    /\ out' = {}
    /\ UNCHANGED <<tree, roles, fader_running, finished, todo, epc, last_cmd, last_req,
                   hist, crashed>>
    /\ failed' = {}

\* fader_loop, line 146: fader_running = False, the thread ends
fader_exit(t) ==
    /\ ~crashed /\ tpc[t] = "exit"
    /\ fader_running' = FALSE
    /\ tpc' = [tpc EXCEPT ![t] = "dead"]
    /\ out' = {}
    /\ UNCHANGED <<tree, roles, fade_queue, fade_lock, finished, todo, epc,
                   last_cmd, last_req, hist, crashed>>
    /\ failed' = {}

\* ------------------------------------------------------- specifications
FocusStep == \E i \in Ids : on_window_focus(i)
NewStep == \E i \in Ids, ty \in Kinds : on_window_new(i, ty)
FloatingStep == \E i \in Ids : on_window_floating(i)
BreakStep == \E t \in Threads : fader_break(t)
PassStep == \E t \in Threads : fader_pass(t)
PopStep == \E t \in Threads : fader_pop(t)
ExitStep == \E t \in Threads : fader_exit(t)

\* the whole program: at most MaxRaced events are delivered
Next ==
    \/ Len(hist) < MaxRaced /\ FocusStep
    \/ Len(hist) < MaxRaced /\ NewStep
    \/ Len(hist) < MaxRaced /\ FloatingStep
    \/ change_opacity
    \/ add_fade_immediate
    \/ add_fade_insert
    \/ start_fader
    \/ BreakStep
    \/ PassStep
    \/ PopStep
    \/ ExitStep

Spec == Init /\ [][Next]_vars

\* the event thread alone: the handlers and the calls they make, the fader thread
\* not being scheduled.  The role state is read and written by the event thread
\* only, so the handlers decide here what they decide in Spec.
EventNext ==
    \/ FocusStep
    \/ NewStep
    \/ FloatingStep
    \/ change_opacity
    \/ add_fade_immediate
    \/ add_fade_insert
    \/ start_fader

EventSpec == Init /\ [][EventNext]_vars

\* ------------------------------------------------ the fade engine alone
\* the arguments add_fade is called with: any window or None, the opacity levels,
\* and durations that are zero, no multiple of FRAME_T (the last step overshoots)
\* and a multiple of FRAME_T (the last step lands on the target)
Durations == {0, 25, 50}
Levels == {CON_INAC, CON_AC}
Callers == {NoWin} \cup {Win(i, "con") : i \in Ids}

EngineInit ==
    /\ tree = [i \in Ids |-> "con"]
    /\ active_win = NoWin
    /\ old_win = NoWin
    /\ bottom_win = NoWin
    /\ floating_windows = {}
    /\ last_cmd = [w \in Ids |-> CON_INAC]
    /\ last_req = last_cmd
    /\ InitEngineVars

\* a caller calls add_fade(w, s, t, d)
request_fade(w, s, t, d) ==
    /\ Ready /\ Len(hist) < MaxRequests
    /\ todo' = <<Fade(w, s, t, d)>>
    /\ hist' = Append(hist, Event("request", NoWin))
    /\ out' = {}
    /\ UNCHANGED <<tree, roles, engine, epc, last_cmd, last_req, crashed>>
    /\ failed' = {}

RequestStep == \E w \in Callers, s \in Levels, t \in Levels, d \in Durations : request_fade(w, s, t, d)

EngineNext ==
    \/ RequestStep
    \/ add_fade_immediate
    \/ add_fade_insert
    \/ start_fader
    \/ BreakStep
    \/ PassStep
    \/ PopStep
    \/ ExitStep

EngineSpec == EngineInit /\ [][EngineNext]_vars

\* the fade engine with windows that vanish: any command of a pass may fail
FailingPassStep == \E t \in Threads, F \in SUBSET Ids : fader_tick(t, F)

FailNext ==
    \/ RequestStep
    \/ add_fade_immediate
    \/ add_fade_insert
    \/ start_fader
    \/ BreakStep
    \/ FailingPassStep
    \/ PopStep
    \/ ExitStep

FailSpec == EngineInit /\ [][FailNext]_vars

\* the fade engine under fair scheduling of the event thread and of the fader threads
EngineFair ==
    /\ EngineSpec
    /\ WF_vars(add_fade_immediate \/ add_fade_insert \/ start_fader)
    /\ \A t \in Threads : WF_vars(fader_break(t) \/ fader_pass(t) \/ fader_pop(t) \/ fader_exit(t))

\* ------------------------------------------------------------ properties
Range(sq) == {sq[k] : k \in 1..Len(sq)}
AllDead == \A t \in Threads : tpc[t] = "dead"
\* the event delivered by this step, and the one before it
Delivered(kind) == hist' # hist /\ hist'[Len(hist')].ev = kind
Arrived == Win(hist'[Len(hist')].id, hist'[Len(hist')].type)
LastEvent == hist[Len(hist)]
\* a step of a fader thread
FaderStep == tpc' # tpc /\ epc' = epc

\* C1: the queue never holds two entries of one window, and an add_fade that puts an
\* entry in the queue leaves exactly one entry of that window, with the start
\* opacity, the per-frame change and the target of that call, whatever the queue
\* held for the window before.
C1_SingleFadePerWindow ==
    [][ /\ \A f, g \in fade_queue' : f.id = g.id => f = g
        /\ (epc = "idle" /\ epc' = "start") =>
              LET c == Head(todo) IN
              {f \in fade_queue' : f.id = c.win.id} =
                 {[id |-> c.win.id, opacity |-> c.start,
                   change |-> (FRAME_T * (c.target - c.start)) \div c.duration,
                   target |-> c.target, win |-> c.win]} ]_vars

\* a second add_fade has replaced the entry of a window whose fade was under way
\* (the last opacity sent to it lies strictly between the levels)
C1_Witness ==
    /\ epc = "start"
    /\ Len(hist) = 2
    /\ \E f \in fade_queue :
          /\ f.id = Head(todo).win.id
          /\ f.opacity = Head(todo).start
          /\ last_cmd[f.id] \notin Levels

\* C2: add_fade for a window with duration zero (or absent) or with start = target
\* sends exactly one command, the target to that window, returns, and leaves the
\* queue as it was.
C2_ZeroDurationCollapse ==
    [][ ( /\ todo # <<>> /\ epc = "idle"
          /\ Head(todo).op = "fade"
          /\ Head(todo).win # NoWin
          /\ (Head(todo).duration = 0 \/ Head(todo).start = Head(todo).target)
          /\ <<todo, epc>>' # <<todo, epc>> )
        => ( /\ out' = {[id |-> Head(todo).win.id, value |-> Head(todo).target, by |-> "event"]}
             /\ fade_queue' = fade_queue
             /\ fader_running' = fader_running
             /\ todo' = Tail(todo)
             /\ epc' = "idle" ) ]_vars

\* add_fade has sent its one command and returned, no fade having ever been queued
C2_Witness ==
    /\ Ready /\ hist # <<>>
    /\ \E c \in out : c.by = "event" /\ c.value = last_req[c.id]
    /\ fade_queue = {}
    /\ ~fader_running
    /\ AllDead

\* C3: in every pass, an entry with a positive change gets exactly one command; its
\* value is not below the entry's opacity before the pass (the start, or the value
\* the previous pass sent) and not above the target; on the pass that finishes the
\* entry the value is the target itself and the entry is then removed, on every
\* other pass it is the entry's new opacity, still below the target.
C3_MonotonicConvergence ==
    [][ \A t \in Threads :
          /\ (tpc[t] = "check" /\ tpc'[t] = "pop") =>
                \A f \in fade_queue : f.change > 0 =>
                   \E c \in out' :
                      /\ c.id = f.id /\ c.by = "tick"
                      /\ \A c2 \in out' : c2.id = f.id => c2 = c
                      /\ c.value >= f.opacity
                      /\ c.value <= f.target
                      /\ IF f.id \in finished'[t]
                         THEN c.value = f.target
                         ELSE /\ c.value < f.target
                              /\ \E g \in fade_queue' : g.id = f.id /\ g.opacity = c.value
          /\ (tpc[t] = "pop" /\ tpc'[t] = "check") =>
                \A f \in fade_queue : f.id \in finished[t] => f \notin fade_queue' ]_vars

\* a rising fade has overshot its target in this pass and the target was sent
C3_Witness ==
    \E t \in Threads :
       /\ tpc[t] = "pop"
       /\ \E f \in fade_queue :
             /\ f.change > 0 /\ f.opacity > f.target
             /\ f.id \in finished[t]
             /\ [id |-> f.id, value |-> f.target, by |-> "tick"] \in out

\* C4: there is no state in which the queue holds a fade, no fader thread is alive
\* and the event thread has no call left to make (so nothing will ever advance
\* the fade unless a further event arrives).
C4_NoStrandedFade == ~(fade_queue # {} /\ Ready /\ AllDead)

\* C5: while the queue is empty a fader thread sends no command and leaves the queue
\* alone, its only steps being to leave the loop and to end; an empty queue leads to
\* the fader threads having ended unless add_fade queues a fade first; and once no
\* call is made any more the fader threads end for good.
C5_IdleShutdown ==
    /\ [][ (fade_queue = {} /\ FaderStep) =>
              /\ fade_queue' = {}
              /\ out' = {}
              /\ last_cmd' = last_cmd
              /\ \A t \in Threads : tpc'[t] # tpc[t] =>
                    <<tpc[t], tpc'[t]>> \in {<<"check", "exit">>, <<"exit", "dead">>} ]_vars
    /\ (fade_queue = {}) ~> (AllDead \/ fade_queue # {})
    /\ <>[]AllDead

\* the fader thread has finished a fade, found the queue empty and ended
C5_Witness ==
    /\ AllDead /\ ~fader_running /\ Ready
    /\ fade_queue = {}
    /\ \E t \in Threads : finished[t] # {}

\* C6: focus moving from the active tiled window A to another tiled window B makes
\* exactly the calls add_fade(B, CON_INAC, CON_AC, CON_IN) and
\* add_fade(A, CON_AC, CON_INAC, CON_OUT), leaves bottom_win, old_win and
\* floating_windows alone and makes B the active window.
C6_TiledToTiled ==
    [][ ( /\ Delivered("focus")
          /\ active_win # NoWin /\ active_win.type = "con"
          /\ Arrived.type = "con" /\ Arrived.id # active_win.id )
        => ( /\ todo' = <<Fade(Arrived, CON_INAC, CON_AC, CON_IN),
                          Fade(active_win, CON_AC, CON_INAC, CON_OUT)>>
             /\ UNCHANGED <<bottom_win, old_win, floating_windows>>
             /\ active_win' = Arrived ) ]_vars

\* the handler has just run for a focus change between two tiled windows
C6_Witness ==
    /\ hist # <<>> /\ LastEvent.ev = "focus"
    /\ active_win = Win(LastEvent.id, "con")
    /\ \E i \in Ids :
          /\ i # active_win.id
          /\ todo = <<Fade(active_win, CON_INAC, CON_AC, CON_IN),
                      Fade(Win(i, "con"), CON_AC, CON_INAC, CON_OUT)>>

\* C7: when focus on tiled A is followed by focus on floating F, the handler of the
\* second event leaves bottom_win = A and calls add_fade(A, CON_AC, BOT_INAC,
\* BOT_OUT); when focus on A follows again, the handler calls
\* add_fade(F, FLOAT_AC, FLOAT_INAC, FLOAT_BOT_OUT) and add_fade(A, BOT_INAC, CON_AC,
\* BOT_IN) and nothing else.
C7_BottomRepromotion ==
    [][ /\ ( /\ Len(hist) >= 1 /\ Delivered("focus")
             /\ LastEvent.ev = "focus" /\ LastEvent.type = "con"
             /\ Arrived.type = "floating_con" /\ Arrived.id # LastEvent.id )
           => ( /\ bottom_win' = Win(LastEvent.id, "con")
                /\ Fade(Win(LastEvent.id, "con"), CON_AC, BOT_INAC, BOT_OUT) \in Range(todo') )
        /\ ( /\ Len(hist) >= 2 /\ Delivered("focus")
             /\ hist[Len(hist) - 1].ev = "focus" /\ hist[Len(hist) - 1].type = "con"
             /\ LastEvent.ev = "focus" /\ LastEvent.type = "floating_con"
             /\ LastEvent.id # hist[Len(hist) - 1].id
             /\ Arrived = Win(hist[Len(hist) - 1].id, "con") )
           => todo' = <<Fade(Win(LastEvent.id, "floating_con"), FLOAT_AC, FLOAT_INAC, FLOAT_BOT_OUT),
                        Fade(Arrived, BOT_INAC, CON_AC, BOT_IN)>> ]_vars

\* C8: a floating toggle of the active window W, tiled and not in floating_windows,
\* with old_win a tiled window and bottom_win set, adds W to floating_windows, makes
\* old_win the bottom window, calls change_opacity(bottom, BOT_INAC) and
\* change_opacity(W, FLOAT_AC) and no add_fade, and leaves W the active window.
C8_FloatToggleWhileActive ==
    [][ ( /\ Delivered("floating")
          /\ active_win.id = Arrived.id /\ active_win.type = "con"
          /\ Arrived.id \notin floating_windows
          /\ old_win # NoWin /\ old_win.type = "con"
          /\ bottom_win # NoWin )
        => ( /\ floating_windows' = floating_windows \cup {Arrived.id}
             /\ bottom_win' = old_win
             /\ todo' = <<SetOp(old_win, BOT_INAC), SetOp(Arrived, FLOAT_AC)>>
             /\ active_win' = Arrived /\ Arrived.type = "floating_con"
             /\ ~crashed' ) ]_vars

\* the handler has just run for such a toggle
C8_Witness ==
    /\ hist # <<>> /\ LastEvent.ev = "floating"
    /\ active_win = Win(LastEvent.id, "floating_con")
    /\ active_win.id \in floating_windows
    /\ old_win # NoWin /\ old_win.type = "con" /\ old_win.id # active_win.id
    /\ bottom_win = old_win
    /\ todo = <<SetOp(old_win, BOT_INAC), SetOp(active_win, FLOAT_AC)>>

\* C9: a focus event for the active window changes nothing and makes no call; every
\* other focus event, also one that arrives while there is no active window, makes
\* the window of the event the active window.
C9_FocusSetsActive ==
    [][ Delivered("focus") =>
          IF active_win # NoWin /\ active_win.id = Arrived.id
          THEN todo' = <<>> /\ out' = {} /\ UNCHANGED <<roles, engine>>
          ELSE active_win' = Arrived ]_vars

\* C10: on_window_new for N with active window A leaves old_win = A and
\* active_win = N; bottom_win stays if it was set, else becomes A if A is tiled,
\* else stays None; the handler calls change_opacity only: first for A (if any) with
\* the inactive level of its type, for the resulting bottom window (if any) with
\* CON_INAC, and last for N with the active level.
C10_WindowCreated ==
    [][ Delivered("new") =>
          /\ old_win' = active_win
          /\ active_win' = Arrived
          /\ bottom_win' = IF bottom_win # NoWin THEN bottom_win
                           ELSE IF active_win # NoWin /\ active_win.type = "con" THEN active_win
                           ELSE NoWin
          /\ \A c \in Range(todo') : c.op = "set"
          /\ active_win # NoWin =>
                todo'[1] = SetOp(active_win, IF active_win.type = "con" THEN CON_INAC ELSE FLOAT_INAC)
          /\ bottom_win' # NoWin => SetOp(bottom_win', CON_INAC) \in Range(todo')
          /\ todo'[Len(todo')] = SetOp(Arrived, IF Arrived.type = "con" THEN CON_AC ELSE FLOAT_AC)
          /\ Len(todo') = 1 + (IF active_win # NoWin THEN 1 ELSE 0)
                            + (IF bottom_win' # NoWin THEN 1 ELSE 0) ]_vars

\* the handler has just run with a bottom window set before and another window active
C10_Witness ==
    /\ hist # <<>> /\ LastEvent.ev = "new"
    /\ active_win.id = LastEvent.id
    /\ old_win # NoWin
    /\ bottom_win # NoWin /\ bottom_win.id # old_win.id
    /\ Len(todo) = 3

\* the fade of an entry reaches or crosses its target with its next addition
Crosses(f) ==
    \/ f.change > 0 /\ f.opacity + f.change >= f.target
    \/ f.change < 0 /\ f.opacity + f.change <= f.target

\* C11: a command that fails is handled locally: the pass over the queue still
\* advances every entry and sends a command for every entry, failed or not, an
\* entry that reaches or crosses its target is recorded as finished and removed by
\* the same tick even if its command failed, and the thread leaves the loop only
\* with an empty queue.
C11_CommandFailureNonFatal ==
    [][ \A t \in Threads :
          /\ (tpc[t] = "check" /\ tpc'[t] # "check" /\ fade_queue # {}) =>
                /\ tpc'[t] = "pop"
                /\ \A f \in fade_queue :
                      /\ \E c \in out' : c.id = f.id /\ c.by = "tick"
                      /\ \E g \in fade_queue' : g.id = f.id /\ g.opacity = f.opacity + f.change
                      /\ Crosses(f) => f.id \in finished'[t]
          /\ (tpc[t] = "pop" /\ tpc'[t] # "pop") =>
                /\ tpc'[t] = "check"
                /\ \A f \in fade_queue' : f.id \notin finished[t]
          /\ (tpc[t] \in {"check", "pop"} /\ tpc'[t] \in {"exit", "dead"}) => fade_queue = {} ]_vars

\* a pass has just run in which the command of a finishing fade failed while the
\* command of another fade was sent
C11_Witness ==
    \E t \in Threads :
       /\ tpc[t] = "pop"
       /\ \E i \in failed : i \in finished[t]
       /\ \E c \in out : c.id \notin failed /\ c.by = "tick"

\* C12: on_window_floating with no active window ends in an error: no opacity
\* command is issued, no fade is requested or queued, active_win is not assigned
\* and stays None.
C12_FloatingWithoutActive ==
    [][ (Delivered("floating") /\ active_win = NoWin) =>
          /\ crashed'
          /\ todo' = <<>> /\ out' = {}
          /\ fade_queue' = fade_queue /\ last_cmd' = last_cmd /\ last_req' = last_req
          /\ active_win' = NoWin ]_vars

\* the handler has just raised for want of an active window
C12_Witness ==
    /\ crashed /\ active_win = NoWin
    /\ hist # <<>> /\ LastEvent.ev = "floating"
    /\ todo = <<>> /\ out = {}

\* v lies in the closed interval between a and b
Between(v, a, b) == (a <= v /\ v <= b) \/ (b <= v /\ v <= a)

\* the start opacities from which a fade with the rate and target of f can have begun
Starts(f) == {s \in Levels : (f.change > 0 /\ s < f.target) \/ (f.change < 0 /\ s > f.target)}

\* C13: every opacity sent in a command lies in [0, 1] (0..1000 thousandths); the
\* value a tick sends for a fade lies between the fade's opacity before the tick
\* and its target, hence between the fade's start opacity and its target.
C13_OpacityRange ==
    [][ /\ \A c \in out' : 0 <= c.value /\ c.value <= 1000
        /\ \A t \in Threads : (tpc[t] = "check" /\ tpc'[t] = "pop") =>
              \A f \in fade_queue : \A c \in out' : c.id = f.id =>
                 /\ Between(c.value, f.opacity, f.target)
                 /\ \E s \in Starts(f) :
                       Between(f.opacity, s, f.target) /\ Between(c.value, s, f.target) ]_vars

\* a tick has just sent an intermediate value for one fade and the target for a
\* downward fade whose opacity fell below it
C13_Witness ==
    \E t \in Threads :
       /\ tpc[t] = "pop"
       /\ \E f \in fade_queue :
             /\ f.change < 0 /\ f.opacity < f.target
             /\ [id |-> f.id, value |-> f.target, by |-> "tick"] \in out
       /\ \E c \in out : c.by = "tick" /\ CON_INAC < c.value /\ c.value < CON_AC

\* C14: while a fader thread is between its pass over the queue and the removal
\* of the finished entries it holds fade_lock, and the queue is exactly as the
\* pass left it: the entries recorded as finished are the entries that reached
\* their target, so no add_fade has inserted or replaced an entry meanwhile and
\* the removal takes no entry add_fade has put.
C14_MutualExclusion ==
    \A t \in Threads :
       tpc[t] = "pop" =>
          /\ fade_lock = t
          /\ \A f \in fade_queue : f.id \in finished[t] <=> Done(f)
          /\ \A u \in Threads : u # t => tpc[u] # "pop"

\* add_fade waits to replace the entry of a window whose fade the pass has just
\* found finished and not yet removed
C14_Witness ==
    \E t \in Threads :
       /\ tpc[t] = "pop" /\ finished[t] # {}
       /\ epc = "idle" /\ todo # <<>>
       /\ Head(todo).op = "fade"
       /\ Head(todo).win.id \in finished[t]
       /\ ~Immediate(Head(todo).win, Head(todo).start, Head(todo).target, Head(todo).duration)

\* the fader threads that have been started and have not ended
Alive == {t \in Threads : tpc[t] # "dead"}

\* C15: at most one fader thread is alive at any time, and a thread is alive
\* only while fader_running is set: add_fade starts no second loop during the
\* start-up or the shut-down of a running one.
C15_SingleTickLoop ==
    /\ Cardinality(Alive) <= 1
    /\ Alive # {} => fader_running

\* add_fade has put a fade in the queue and started nothing while the only
\* fader thread was leaving its loop
C15_Witness ==
    /\ \E t \in Threads : tpc[t] = "exit"
    /\ fade_queue # {}
    /\ epc = "idle" /\ todo = <<>>
    /\ hist # <<>> /\ LastEvent.ev = "request"

\* C16: bottom_win is None or a window that is tiled now.
C16_BottomIsTiled ==
    bottom_win # NoWin => tree[bottom_win.id] = "con"

\* C17: whenever a handler changes active_win, old_win becomes the window that
\* was active before the change.
C17_PreviousTracksActive ==
    [][ (active_win'.id # active_win.id /\ active_win # NoWin) =>
           old_win'.id = active_win.id ]_vars

\* C18: on_window_focus for a tiled window N while a floating window F is active:
\* with bottom_win = B set and N # B it calls exactly add_fade(F, FLOAT_AC,
\* FLOAT_INAC, FLOAT_BOT_OUT), add_fade(B, BOT_INAC, CON_INAC, BOT_SWITCH_OUT) and
\* add_fade(N, CON_INAC, CON_AC, BOT_SWITCH_IN) and leaves bottom_win = N; with
\* bottom_win None it calls exactly the F fade and add_fade(N, CON_INAC, CON_AC,
\* CON_IN) and leaves bottom_win None; in both cases N becomes the active window.
C18_FloatingToTiledSwitch ==
    [][ ( /\ Delivered("focus")
          /\ active_win # NoWin /\ active_win.type = "floating_con"
          /\ Arrived.type = "con" /\ Arrived.id # active_win.id )
        => /\ active_win' = Arrived
           /\ (bottom_win # NoWin /\ Arrived.id # bottom_win.id) =>
                 /\ todo' = <<Fade(active_win, FLOAT_AC, FLOAT_INAC, FLOAT_BOT_OUT),
                              Fade(bottom_win, BOT_INAC, CON_INAC, BOT_SWITCH_OUT),
                              Fade(Arrived, CON_INAC, CON_AC, BOT_SWITCH_IN)>>
                 /\ bottom_win' = Arrived
           /\ bottom_win = NoWin =>
                 /\ todo' = <<Fade(active_win, FLOAT_AC, FLOAT_INAC, FLOAT_BOT_OUT),
                              Fade(Arrived, CON_INAC, CON_AC, CON_IN)>>
                 /\ bottom_win' = NoWin ]_vars

\* the handler has just moved the bottom role from another tiled window to the
\* newly focused one
C18_Witness ==
    /\ hist # <<>> /\ LastEvent.ev = "focus"
    /\ active_win = Win(LastEvent.id, "con") /\ bottom_win = active_win
    /\ Len(todo) = 3
    /\ todo[1].win.type = "floating_con" /\ todo[1].duration = FLOAT_BOT_OUT
    /\ todo[2].win.id # active_win.id /\ todo[2].target = CON_INAC
    /\ todo[3] = Fade(active_win, CON_INAC, CON_AC, BOT_SWITCH_IN)

\* C19: when on_window_floating runs for a window that has a fade in the queue
\* (and an active window exists), the handler requests a new fade for that
\* window, which replaces the entry in flight.
C19_ToggleReplacesFade ==
    [][ ( /\ Delivered("floating") /\ active_win # NoWin
          /\ \E f \in fade_queue : f.id = Arrived.id )
        => \E op \in Range(todo') : op.op = "fade" /\ op.win.id = Arrived.id ]_vars

\* C20: once the queue is empty and no handler is running, the last opacity
\* sent for every window is the value of the most recent request made for it.
C20_LastRequestWins ==
    (fade_queue = {} /\ Ready) => \A w \in Ids : last_cmd[w] = last_req[w]

====
